---- MODULE Spec2Model ----
(***************************************************************************)
(* Model of the DEX query client of client/rpc/dex_client.go.              *)
(*                                                                         *)
(* The client is stateless: every public operation is one synchronous      *)
(* request/response call.  A behaviour of the model is one call on a       *)
(* freshly constructed client: the caller's arguments and the answers of   *)
(* the transport are chosen by the environment, the operation is computed  *)
(* as the code computes it, and the state records what the call did (the   *)
(* transport calls it issued, the byte strings it handed to the codec) and *)
(* what it returned (value, error, or a run-time panic).                   *)
(***************************************************************************)
EXTENDS Integers, Sequences, FiniteSets, TLC

VARIABLES op, args, resps, calls, decodes, ret

vars == <<op, args, resps, calls, decodes, ret>>

----------------------------------------------------------------------------
(* Bounds of the model *)

MaxAmount == 2      \* largest amount of one denomination in an account's coins
MaxLocked == 1      \* largest locked / frozen amount of one denomination
MaxItems == 2      \* largest number of elements in a decoded list

(* Program constants *)

TimeLockrcNotFoundErrorCode == 458760
CodeTypeOK == 0
MaxLimit == 3

AccountStoreName == "acc"
ParamABCIPrefix == "param"
TimeLockMsgRoute == "timelock"
AtomicSwapStoreName == "atomic_swap"
AtomicSwapRoute == "atomicSwap"

----------------------------------------------------------------------------
(* Errors.  A Go error is the sequence of the texts it carries, outermost  *)
(* context first; the nil error is the empty sequence.                     *)

NoErr == <<>>
New(text) == <<text>>
Errorf(context, err) == <<context>> \o err

----------------------------------------------------------------------------
(* Accounts (types.Account / types.NamedAccount).  Coins are a list of     *)
(* (denom, amount) kept sorted by denom, without duplicates.               *)

Denoms == <<"BNB", "BUSD">>

\* the coins holding amts[i] of Denoms[i], denominations with amount 0 left out
RECURSIVE CoinsFrom(_, _)
CoinsFrom(amts, i) ==
    IF i > Len(Denoms) THEN <<>>
    ELSE IF amts[i] = 0 THEN CoinsFrom(amts, i + 1)
    ELSE <<[denom |-> Denoms[i], amount |-> amts[i]]>> \o CoinsFrom(amts, i + 1)

CoinSets(max) == { CoinsFrom(a, 1) : a \in [1..Len(Denoms) -> 0..max] }

NoAccount == [kind |-> "none", coins |-> <<>>, locked |-> <<>>, frozen |-> <<>>]

PlainAccounts ==
    { [kind |-> "plain", coins |-> c, locked |-> <<>>, frozen |-> <<>>] :
        c \in CoinSets(MaxAmount) }

NamedAccounts ==
    { [kind |-> "named", coins |-> c, locked |-> l, frozen |-> f] :
        c \in CoinSets(MaxAmount), l \in CoinSets(MaxLocked), f \in CoinSets(MaxLocked) }

Accounts == PlainAccounts \cup NamedAccounts

\* Coins.AmountOf: the amount of denom in coins, 0 when it is not there
RECURSIVE AmountOf(_, _)
AmountOf(coins, denom) ==
    IF Len(coins) = 0 THEN 0
    ELSE IF Head(coins).denom = denom THEN Head(coins).amount
    ELSE AmountOf(Tail(coins), denom)

\* account.(types.NamedAccount) succeeds only on a named account
IsNamedAccount(acc) == acc.kind = "named"

----------------------------------------------------------------------------
(* Byte strings.  A byte string is nil, empty-but-non-nil, or non-empty;   *)
(* a non-empty one is either junk or the encoding, in one of the codec's   *)
(* three disciplines, of a value of some shape.  `items' is the decoded    *)
(* content: the number of elements of a list, or the identity (>= 1) of a  *)
(* single entity; `acc' is the decoded account.                            *)

NilBytes ==
    [isNil |-> TRUE, len |-> 0, enc |-> "none", shape |-> "none",
     items |-> 0, acc |-> NoAccount]

EmptyBytes ==
    [isNil |-> FALSE, len |-> 0, enc |-> "none", shape |-> "none",
     items |-> 0, acc |-> NoAccount]

JunkBytes ==
    [isNil |-> FALSE, len |-> 1, enc |-> "junk", shape |-> "none",
     items |-> 0, acc |-> NoAccount]

Encoded(enc, shape, n) ==
    [isNil |-> FALSE, len |-> n + 1, enc |-> enc, shape |-> shape,
     items |-> n, acc |-> NoAccount]

EncodedAccount(a) ==
    [isNil |-> FALSE, len |-> 1 + Len(a.coins), enc |-> "bare", shape |-> "Account",
     items |-> 1, acc |-> a]

\* the encoding a discipline is NOT
OtherDiscipline(enc) == IF enc = "json" THEN "lengthPrefixed" ELSE "json"

\* what a transport may answer where a list of `shape' is expected
ListBytes(enc, shape) ==
    {NilBytes, EmptyBytes, JunkBytes, Encoded(OtherDiscipline(enc), shape, 1)}
        \cup { Encoded(enc, shape, n) : n \in 0..MaxItems }

\* what a transport may answer where one entity of `shape' is expected
EntityBytes(enc, shape) ==
    {NilBytes, EmptyBytes, JunkBytes, Encoded(OtherDiscipline(enc), shape, 1),
     Encoded(enc, shape, 1)}

AccountBytes ==
    {NilBytes, EmptyBytes, JunkBytes, Encoded("bare", "Token", 1)}
        \cup { EncodedAccount(a) : a \in Accounts }

\* len(bz) and bz == nil
BytesLen(bz) == bz.len
IsNilBytes(bz) == bz.isNil

\* The codec: decoding bz as a `shape' in discipline `enc' succeeds exactly
\* when bz is non-empty and is the encoding of a `shape' in that discipline.
Unmarshal(enc, bz, shape) ==
    BytesLen(bz) > 0 /\ bz.enc = enc /\ bz.shape = shape

UnmarshalBinaryLengthPrefixed(bz, shape) == Unmarshal("lengthPrefixed", bz, shape)
UnmarshalBinaryBare(bz, shape) == Unmarshal("bare", bz, shape)
UnmarshalJSON(bz, shape) == Unmarshal("json", bz, shape)

\* cdc.MarshalJSON(params): the encoded request, or nil when marshalling failed
MarshalJSON(mErr, shape) ==
    IF mErr # NoErr THEN NilBytes ELSE Encoded("json", shape, 1)

----------------------------------------------------------------------------
(* Returned values *)

NilVal == [kind |-> "nil", items |-> 0, acc |-> NoAccount, bals |-> <<>>]
\* a non-nil slice of n decoded elements (make([]T, 0) when n = 0)
SliceVal(n) == [kind |-> "slice", items |-> n, acc |-> NoAccount, bals |-> <<>>]
\* a pointer to entity n; n = 0 is the zero value (new(T))
PtrVal(n) == [kind |-> "ptr", items |-> n, acc |-> NoAccount, bals |-> <<>>]
\* a struct returned by value; n = 0 is the zero struct (T{})
StructVal(n) == [kind |-> "struct", items |-> n, acc |-> NoAccount, bals |-> <<>>]
\* a non-nil interface value holding entity n
IfaceVal(n) == [kind |-> "iface", items |-> n, acc |-> NoAccount, bals |-> <<>>]
AccountVal(a) == [kind |-> "iface", items |-> 1, acc |-> a, bals |-> <<>>]
BalancesVal(bs) == [kind |-> "slice", items |-> Len(bs), acc |-> NoAccount, bals |-> bs]
BalanceVal(b) == [kind |-> "ptr", items |-> 1, acc |-> NoAccount, bals |-> <<b>>]

TokenBalance(symbol, free, locked, frozen) ==
    [symbol |-> symbol, free |-> free, locked |-> locked, frozen |-> frozen]

\* the outcome of one call: what it did and what it returned
Return(cs, ds, val, err) ==
    [calls |-> cs, decodes |-> ds, ret |-> [val |-> val, err |-> err, panic |-> ""]]

\* the call aborted with a run-time panic
Panic(cs, ds, msg) ==
    [calls |-> cs, decodes |-> ds, ret |-> [val |-> NilVal, err |-> NoErr, panic |-> msg]]

NoRet == [val |-> NilVal, err |-> NoErr, panic |-> ""]

----------------------------------------------------------------------------
(* Transport *)

TransportErrs == {<<"timeout">>}
Codes == {CodeTypeOK, 1, TimeLockrcNotFoundErrorCode}
Logs == {"", "remote log"}

\* c.ABCIQuery: a failure, or a response {Code, Value, Log}
AbciFailures ==
    { [err |-> e, code |-> CodeTypeOK, value |-> NilBytes, log |-> ""] : e \in TransportErrs }

AbciResponses(values) ==
    AbciFailures \cup
    { [err |-> NoErr, code |-> c, value |-> v, log |-> l] :
        c \in Codes, v \in values, l \in Logs }

\* c.QueryStore: a failure, or the value under the key (nil when absent)
StoreResponses(values) ==
    { [err |-> e, code |-> CodeTypeOK, value |-> NilBytes, log |-> ""] : e \in TransportErrs }
    \cup { [err |-> NoErr, code |-> CodeTypeOK, value |-> v, log |-> ""] : v \in values }

\* c.WSEvents.TxInfoSearch: a failure, or the already-typed results
SearchResponses ==
    { [err |-> e, code |-> CodeTypeOK, value |-> NilBytes, log |-> ""] : e \in TransportErrs }
    \cup { [err |-> NoErr, code |-> CodeTypeOK, value |-> Encoded("json", "TxInfo", n), log |-> ""] :
             n \in 0..MaxItems }

IsOK(resp) == resp.code = CodeTypeOK
GetValue(resp) == resp.value

\* the transport calls, as the log of a call records them
AbciCallWith(tmpl, pathArgs, params, data) ==
    [kind |-> "ABCIQuery", path |-> [tmpl |-> tmpl, args |-> pathArgs],
     params |-> params, data |-> data]
AbciCall(tmpl, pathArgs, data) == AbciCallWith(tmpl, pathArgs, <<>>, data)
StoreCall(prefix, key, store) ==
    [kind |-> "QueryStore", path |-> [tmpl |-> prefix, args |-> <<key, store>>],
     params |-> <<>>, data |-> NilBytes]
SearchCall(query, prove, page, perPage) ==
    [kind |-> "TxInfoSearch", path |-> [tmpl |-> query, args |-> <<prove, page, perPage>>],
     params |-> <<>>, data |-> NilBytes]

----------------------------------------------------------------------------
(* Input validators *)

WellFormedSymbols == {"BNB", "BUSD", "XYZ-000"}
Symbols == WellFormedSymbols \cup {"", "b@d"}
\* a pair is the list of the symbols between its underscores
Pairs == {<<"BNB", "BUSD">>, <<"BNB">>, <<"BNB", "b@d">>, <<"BNB", "BUSD", "XYZ-000">>}
AllowedDepthLevels == {5, 10, 20, 50, 100, 500, 1000}
DepthLevels == {-1, 0, 5, 7, 1000, 1001}
WellFormedQueries == {"tx.height=1"}
Queries == WellFormedQueries \cup {"free text", ""}
Offsets == -1..1
Limits == -1..(MaxLimit + 1)
WellFormedBech32 == {"bnb1creator"}
AddrTexts == WellFormedBech32 \cup {"notbech32"}
Addrs == {"addr1", "addr2"}

ValidateOffset(offset) == IF offset < 0 THEN New("offset out of range") ELSE NoErr
ValidateLimit(limit) ==
    IF limit < 0 \/ limit > MaxLimit THEN New("limit out of range") ELSE NoErr
ValidateSymbol(symbol) ==
    IF symbol \in WellFormedSymbols THEN NoErr ELSE New("invalid symbol")
ValidatePair(pair) ==
    IF Len(pair) = 2 /\ ValidateSymbol(pair[1]) = NoErr /\ ValidateSymbol(pair[2]) = NoErr
    THEN NoErr ELSE New("invalid pair")
ValidateDepthLevel(level) ==
    IF level \in AllowedDepthLevels THEN NoErr ELSE New("invalid depth level")
ValidateTxSearchQueryStr(query) ==
    IF query \in WellFormedQueries THEN NoErr ELSE New("invalid search query")
AccAddressFromBech32(text) ==
    IF text \in WellFormedBech32 THEN NoErr ELSE New("decoding bech32 failed")

----------------------------------------------------------------------------
(* The public operations.  Each takes the caller's arguments and what the  *)
(* transport answers to the calls it issues (r, r1, r2), and yields what   *)
(* the call did and returned.                                              *)

DecodeErr == New("decode failed")

TxInfoSearch(query, prove, page, perPage, r) ==
    IF ValidateTxSearchQueryStr(query) # NoErr
    THEN Return(<<>>, <<>>, NilVal, ValidateTxSearchQueryStr(query))
    ELSE Return(<<SearchCall(query, prove, page, perPage)>>, <<>>,
                IF r.err # NoErr THEN NilVal ELSE SliceVal(r.value.items), r.err)

ListAllTokens(offset, limit, r) ==
    IF ValidateOffset(offset) # NoErr
    THEN Return(<<>>, <<>>, NilVal, ValidateOffset(offset))
    ELSE IF ValidateLimit(limit) # NoErr
    THEN Return(<<>>, <<>>, NilVal, ValidateLimit(limit))
    ELSE LET cs == <<AbciCall("tokens/list/%d/%d", <<offset, limit>>, NilBytes)>>
             bz == GetValue(r)
         IN  IF r.err # NoErr THEN Return(cs, <<>>, NilVal, r.err)
             ELSE IF UnmarshalBinaryLengthPrefixed(bz, "Tokens")
             THEN Return(cs, <<bz>>, SliceVal(bz.items), NoErr)
             ELSE Return(cs, <<bz>>, SliceVal(0), DecodeErr)

GetTokenInfo(symbol, r) ==
    IF ValidateSymbol(symbol) # NoErr
    THEN Return(<<>>, <<>>, NilVal, ValidateSymbol(symbol))
    ELSE LET cs == <<AbciCall("tokens/info/%s", <<symbol>>, NilBytes)>>
             bz == GetValue(r)
         IN  IF r.err # NoErr THEN Return(cs, <<>>, NilVal, r.err)
             ELSE IF UnmarshalBinaryLengthPrefixed(bz, "Token")
             THEN Return(cs, <<bz>>, PtrVal(bz.items), NoErr)
             ELSE Return(cs, <<bz>>, PtrVal(0), DecodeErr)

GetCommitAccount(addr, r) ==
    LET cs == <<StoreCall("account:", addr, AccountStoreName)>>
        bz == GetValue(r)
    IN  IF r.err # NoErr THEN Return(cs, <<>>, NilVal, r.err)
        ELSE IF IsNilBytes(bz) THEN Return(cs, <<>>, NilVal, NoErr)
        ELSE IF ~UnmarshalBinaryBare(bz, "Account") THEN Return(cs, <<bz>>, NilVal, DecodeErr)
        ELSE Return(cs, <<bz>>, AccountVal(bz.acc), NoErr)

GetAccount(addr, r) ==
    LET cs == <<AbciCall("/account/%s", <<addr>>, NilBytes)>>
        value == GetValue(r)
    IN  IF r.err # NoErr THEN Return(cs, <<>>, NilVal, r.err)
        ELSE IF ~IsOK(r) THEN Return(cs, <<>>, NilVal, New(r.log))
        ELSE IF BytesLen(value) = 0 THEN Return(cs, <<>>, NilVal, NoErr)
        ELSE IF ~UnmarshalBinaryBare(value, "Account")
        THEN Return(cs, <<value>>, NilVal, DecodeErr)
        ELSE Return(cs, <<value>>, AccountVal(value.acc), NoErr)

\* the loop of GetBalances from coin i on: the balances, or "panic" when the
\* type assertion of the loop body fails
RECURSIVE BalancesLoop(_, _, _)
BalancesLoop(account, i, bals) ==
    LET coins == account.coins
        coin == coins[i]
    IN  IF i > Len(coins) THEN [panic |-> "", bals |-> bals]
        ELSE IF ~IsNamedAccount(account)
        THEN [panic |-> "interface conversion: not a NamedAccount", bals |-> <<>>]
        ELSE BalancesLoop(account, i + 1,
                Append(bals, TokenBalance(coin.denom,
                                          AmountOf(coins, coin.denom),
                                          AmountOf(account.locked, coin.denom),
                                          AmountOf(account.frozen, coin.denom))))

GetBalances(addr, r) ==
    LET a == GetAccount(addr, r)
        account == a.ret.val
        loop == BalancesLoop(account.acc, 1, <<>>)
    IN  IF a.ret.err # NoErr THEN Return(a.calls, a.decodes, NilVal, a.ret.err)
        ELSE IF account.kind = "nil"
        THEN Panic(a.calls, a.decodes, "nil pointer dereference")
        ELSE IF loop.panic # "" THEN Panic(a.calls, a.decodes, loop.panic)
        ELSE Return(a.calls, a.decodes, BalancesVal(loop.bals), NoErr)

\* existsCC, had it taken every answered query for an existing token
existsCC_AnyAnswer(symbol, r) ==
    LET cs == <<AbciCall("tokens/info/%s", <<symbol>>, NilBytes)>>
    IN  IF r.err # NoErr THEN [exist |-> FALSE, calls |-> cs, decodes |-> <<>>]
        ELSE [exist |-> TRUE, calls |-> cs, decodes |-> <<>>]

existsCC(symbol, r) ==
    LET cs == <<AbciCall("tokens/info/%s", <<symbol>>, NilBytes)>>
        bz == GetValue(r)
    IN  IF r.err # NoErr THEN [exist |-> FALSE, calls |-> cs, decodes |-> <<>>]
        ELSE IF ~IsOK(r) THEN [exist |-> FALSE, calls |-> cs, decodes |-> <<>>]
        ELSE IF BytesLen(bz) = 0 THEN [exist |-> FALSE, calls |-> cs, decodes |-> <<>>]
        ELSE IF ~UnmarshalBinaryLengthPrefixed(bz, "Token")
        THEN [exist |-> FALSE, calls |-> cs, decodes |-> <<bz>>]
        ELSE [exist |-> TRUE, calls |-> cs, decodes |-> <<bz>>]

GetBalance(addr, symbol, r1, r2) ==
    IF ValidateSymbol(symbol) # NoErr
    THEN Return(<<>>, <<>>, NilVal, ValidateSymbol(symbol))
    ELSE LET e == existsCC(symbol, r1)
             a == GetAccount(addr, r2)
             cs == e.calls \o a.calls
             ds == e.decodes \o a.decodes
             acc == a.ret.val
             nacc == acc.acc
         IN  IF ~e.exist THEN Return(e.calls, e.decodes, NilVal, New("symbol not found"))
             ELSE IF a.ret.err # NoErr THEN Return(cs, ds, NilVal, a.ret.err)
             ELSE IF acc.kind = "nil" THEN Panic(cs, ds, "interface conversion: interface is nil")
             ELSE IF ~IsNamedAccount(nacc)
             THEN Panic(cs, ds, "interface conversion: not a NamedAccount")
             ELSE Return(cs, ds,
                         BalanceVal(TokenBalance(symbol,
                                                 AmountOf(nacc.coins, symbol),
                                                 AmountOf(nacc.locked, symbol),
                                                 AmountOf(nacc.frozen, symbol))),
                         NoErr)

GetFee(r) ==
    LET cs == <<AbciCall("%s/fees", <<ParamABCIPrefix>>, NilBytes)>>
        bz == GetValue(r)
    IN  IF r.err # NoErr THEN Return(cs, <<>>, NilVal, r.err)
        ELSE IF UnmarshalBinaryLengthPrefixed(bz, "FeeParams")
        THEN Return(cs, <<bz>>, SliceVal(bz.items), NoErr)
        ELSE Return(cs, <<bz>>, NilVal, DecodeErr)

GetOpenOrders(addr, pair, r) ==
    IF ValidatePair(pair) # NoErr
    THEN Return(<<>>, <<>>, NilVal, ValidatePair(pair))
    ELSE LET cs == <<AbciCall("dex/openorders/%s/%s", <<pair, addr>>, NilBytes)>>
             bz == GetValue(r)
         IN  IF r.err # NoErr THEN Return(cs, <<>>, NilVal, r.err)
             ELSE IF IsNilBytes(bz) THEN Return(cs, <<>>, SliceVal(0), NoErr)
             ELSE IF ~UnmarshalBinaryLengthPrefixed(bz, "OpenOrders")
             THEN Return(cs, <<bz>>, NilVal, DecodeErr)
             ELSE Return(cs, <<bz>>, SliceVal(bz.items), NoErr)

GetTradingPairs(offset, limit, r) ==
    IF ValidateLimit(limit) # NoErr
    THEN Return(<<>>, <<>>, NilVal, ValidateLimit(limit))
    ELSE IF ValidateOffset(offset) # NoErr
    THEN Return(<<>>, <<>>, NilVal, ValidateOffset(offset))
    ELSE LET cs == <<AbciCall("dex/pairs/%d/%d", <<offset, limit>>, NilBytes)>>
             bz == GetValue(r)
         IN  IF r.err # NoErr THEN Return(cs, <<>>, NilVal, r.err)
             ELSE IF IsNilBytes(bz) THEN Return(cs, <<>>, SliceVal(0), NoErr)
             ELSE IF UnmarshalBinaryLengthPrefixed(bz, "TradingPairs")
             THEN Return(cs, <<bz>>, SliceVal(bz.items), NoErr)
             ELSE Return(cs, <<bz>>, SliceVal(0), DecodeErr)

\* GetDepth, had it queried before validating the depth level
GetDepth_QueryBeforeLevelCheck(tradePair, level, r) ==
    IF ValidatePair(tradePair) # NoErr
    THEN Return(<<>>, <<>>, NilVal, ValidatePair(tradePair))
    ELSE LET cs == <<AbciCall("dex/orderbook/%s/%d", <<tradePair, level>>, NilBytes)>>
             bz == GetValue(r)
         IN  IF r.err # NoErr THEN Return(cs, <<>>, NilVal, r.err)
             ELSE IF ValidateDepthLevel(level) # NoErr
             THEN Return(cs, <<>>, NilVal, ValidateDepthLevel(level))
             ELSE IF ~UnmarshalBinaryLengthPrefixed(bz, "OrderBook")
             THEN Return(cs, <<bz>>, NilVal, DecodeErr)
             ELSE Return(cs, <<bz>>, PtrVal(bz.items), NoErr)

GetDepth(tradePair, level, r) ==
    IF ValidatePair(tradePair) # NoErr
    THEN Return(<<>>, <<>>, NilVal, ValidatePair(tradePair))
    ELSE IF ValidateDepthLevel(level) # NoErr
    THEN Return(<<>>, <<>>, NilVal, ValidateDepthLevel(level))
    ELSE LET cs == <<AbciCall("dex/orderbook/%s/%d", <<tradePair, level>>, NilBytes)>>
             bz == GetValue(r)
         IN  IF r.err # NoErr THEN Return(cs, <<>>, NilVal, r.err)
             ELSE IF ~UnmarshalBinaryLengthPrefixed(bz, "OrderBook")
             THEN Return(cs, <<bz>>, NilVal, DecodeErr)
             ELSE Return(cs, <<bz>>, PtrVal(bz.items), NoErr)

\* GetTimelocks discards a failure of MarshalJSON and queries with what it has.
\* Its test of a nil result is not modelled: the transport yields a failure or
\* a response, never neither.
GetTimelocks(addr, mErr, r) ==
    LET bz == MarshalJSON(mErr, "QueryTimeLocksParams")
        cs == <<AbciCallWith("custom/%s/%s", <<TimeLockMsgRoute, "timelocks">>, <<addr>>, bz)>>
        value == GetValue(r)
    IN  IF r.err # NoErr THEN Return(cs, <<>>, NilVal, r.err)
        ELSE IF ~UnmarshalJSON(value, "TimeLockRecords")
        THEN Return(cs, <<value>>, NilVal, DecodeErr)
        ELSE Return(cs, <<value>>, SliceVal(value.items), NoErr)

\* GetTimelock, had it not compared the status code with the sentinel
GetTimelock_NoSentinelCheck(addr, recordID, mErr, r) ==
    LET bz == MarshalJSON(mErr, "QueryTimeLockParams")
        cs == <<AbciCallWith("custom/%s/%s", <<TimeLockMsgRoute, "timelock">>,
                             <<addr, recordID>>, bz)>>
        value == GetValue(r)
    IN  IF mErr # NoErr
        THEN Return(<<>>, <<>>, NilVal, Errorf("incorrectly formatted request data", mErr))
        ELSE IF r.err # NoErr THEN Return(cs, <<>>, NilVal, Errorf("error query", r.err))
        ELSE IF ~UnmarshalJSON(value, "TimeLockRecord")
        THEN Return(cs, <<value>>, NilVal, DecodeErr)
        ELSE Return(cs, <<value>>, PtrVal(value.items), NoErr)

GetTimelock(addr, recordID, mErr, r) ==
    LET bz == MarshalJSON(mErr, "QueryTimeLockParams")
        cs == <<AbciCallWith("custom/%s/%s", <<TimeLockMsgRoute, "timelock">>,
                             <<addr, recordID>>, bz)>>
        value == GetValue(r)
    IN  IF mErr # NoErr
        THEN Return(<<>>, <<>>, NilVal, Errorf("incorrectly formatted request data", mErr))
        ELSE IF r.err # NoErr THEN Return(cs, <<>>, NilVal, Errorf("error query", r.err))
        ELSE IF r.code = TimeLockrcNotFoundErrorCode THEN Return(cs, <<>>, NilVal, NoErr)
        ELSE IF ~UnmarshalJSON(value, "TimeLockRecord")
        THEN Return(cs, <<value>>, NilVal, DecodeErr)
        ELSE Return(cs, <<value>>, PtrVal(value.items), NoErr)

StatusNil == 0

GetProposals(status, numLatest, mErr, r) ==
    LET params == <<IF status # StatusNil THEN status ELSE StatusNil,
                    IF numLatest > 0 THEN numLatest ELSE 0>>
        bz == MarshalJSON(mErr, "QueryProposalsParams")
        cs == <<AbciCallWith("custom/gov/proposals", <<>>, params, bz)>>
        value == GetValue(r)
    IN  IF mErr # NoErr THEN Return(<<>>, <<>>, NilVal, mErr)
        ELSE IF r.err # NoErr THEN Return(cs, <<>>, NilVal, r.err)
        ELSE IF UnmarshalJSON(value, "Proposals")
        THEN Return(cs, <<value>>, SliceVal(value.items), NoErr)
        ELSE Return(cs, <<value>>, SliceVal(0), DecodeErr)

GetProposal(proposalId, mErr, r) ==
    LET bz == MarshalJSON(mErr, "QueryProposalParams")
        cs == <<AbciCallWith("custom/gov/proposal", <<>>, <<proposalId>>, bz)>>
        value == GetValue(r)
    IN  IF mErr # NoErr THEN Return(<<>>, <<>>, NilVal, mErr)
        ELSE IF r.err # NoErr THEN Return(cs, <<>>, NilVal, r.err)
        ELSE IF UnmarshalJSON(value, "Proposal")
        THEN Return(cs, <<value>>, IfaceVal(value.items), NoErr)
        ELSE Return(cs, <<value>>, NilVal, DecodeErr)

GetSwapByHash(randomNumberHash, r) ==
    LET cs == <<StoreCall(<<1>>, randomNumberHash, AtomicSwapStoreName)>>
        res == GetValue(r)
    IN  IF r.err # NoErr THEN Return(cs, <<>>, StructVal(0), r.err)
        ELSE IF IsNilBytes(res)
        THEN Return(cs, <<>>, StructVal(0), New("no matched swap record"))
        ELSE IF ~UnmarshalBinaryBare(res, "AtomicSwap")
        THEN Return(cs, <<res>>, StructVal(0), DecodeErr)
        ELSE Return(cs, <<res>>, StructVal(res.items), NoErr)

GetSwapByCreator(creatorAddr, swapStatus, offset, limit, mErr, r) ==
    LET bz == MarshalJSON(mErr, "QuerySwapByCreatorParams")
        cs == <<AbciCallWith("custom/%s/%s", <<AtomicSwapRoute, "swapcreator">>,
                             <<creatorAddr, swapStatus, limit, offset>>, bz)>>
        value == GetValue(r)
    IN  IF AccAddressFromBech32(creatorAddr) # NoErr
        THEN Return(<<>>, <<>>, NilVal, AccAddressFromBech32(creatorAddr))
        ELSE IF mErr # NoErr THEN Return(<<>>, <<>>, NilVal, mErr)
        ELSE IF r.err # NoErr THEN Return(cs, <<>>, NilVal, r.err)
        ELSE IF ~UnmarshalJSON(value, "AtomicSwaps")
        THEN Return(cs, <<value>>, NilVal, DecodeErr)
        ELSE Return(cs, <<value>>, SliceVal(value.items), NoErr)

GetSwapByRecipient(recipientAddr, swapStatus, offset, limit, mErr, r) ==
    LET bz == MarshalJSON(mErr, "QuerySwapByRecipientParams")
        cs == <<AbciCallWith("custom/%s/%s", <<AtomicSwapRoute, "swaprecipient">>,
                             <<recipientAddr, swapStatus, limit, offset>>, bz)>>
        value == GetValue(r)
    IN  IF AccAddressFromBech32(recipientAddr) # NoErr
        THEN Return(<<>>, <<>>, NilVal, AccAddressFromBech32(recipientAddr))
        ELSE IF mErr # NoErr THEN Return(<<>>, <<>>, NilVal, mErr)
        ELSE IF r.err # NoErr THEN Return(cs, <<>>, NilVal, r.err)
        ELSE IF ~UnmarshalJSON(value, "AtomicSwaps")
        THEN Return(cs, <<value>>, NilVal, DecodeErr)
        ELSE Return(cs, <<value>>, SliceVal(value.items), NoErr)

----------------------------------------------------------------------------
(* The state machine: one call on a fresh client *)

MarshalErrs == {NoErr, New("marshal failed")}
RecordIDs == {1}
ProposalIDs == {1}
ProposalStatuses == {StatusNil, 1}
NumLatests == {-1, 0, 1}
SwapStatuses == {"Open"}
Hashes == {"hash1"}

Init ==
    /\ op = "none"
    /\ args = <<>>
    /\ resps = <<>>
    /\ calls = <<>>
    /\ decodes = <<>>
    /\ ret = NoRet

\* The call `name' with arguments a, answered by the transport with rs, had
\* outcome o; only the answers to the calls actually issued are consumed.
\* Every operation below is enabled on the fresh client only (op = "none"):
\* the client keeps nothing between calls, so a call's outcome depends on its
\* arguments and the transport's answers alone.
Called(name, a, rs, o) ==
    /\ op' = name
    /\ args' = a
    /\ resps' = SubSeq(rs, 1, Len(o.calls))
    /\ calls' = o.calls
    /\ decodes' = o.decodes
    /\ ret' = o.ret

CallTxInfoSearch ==
    /\ op = "none"
    /\ \E query \in Queries, prove \in BOOLEAN, r \in SearchResponses :
        Called("TxInfoSearch", [query |-> query, prove |-> prove, page |-> 1, perPage |-> 1],
               <<r>>, TxInfoSearch(query, prove, 1, 1, r))

CallListAllTokens ==
    /\ op = "none"
    /\ \E offset \in Offsets, limit \in Limits,
       r \in AbciResponses(ListBytes("lengthPrefixed", "Tokens")) :
        Called("ListAllTokens", [offset |-> offset, limit |-> limit],
               <<r>>, ListAllTokens(offset, limit, r))

CallGetTokenInfo ==
    /\ op = "none"
    /\ \E symbol \in Symbols, r \in AbciResponses(EntityBytes("lengthPrefixed", "Token")) :
        Called("GetTokenInfo", [symbol |-> symbol], <<r>>, GetTokenInfo(symbol, r))

CallGetCommitAccount ==
    /\ op = "none"
    /\ \E addr \in Addrs, r \in StoreResponses(AccountBytes) :
        Called("GetCommitAccount", [addr |-> addr], <<r>>, GetCommitAccount(addr, r))

CallGetAccount ==
    /\ op = "none"
    /\ \E addr \in Addrs, r \in AbciResponses(AccountBytes) :
        Called("GetAccount", [addr |-> addr], <<r>>, GetAccount(addr, r))

CallGetBalances ==
    /\ op = "none"
    /\ \E addr \in Addrs, r \in AbciResponses(AccountBytes) :
        Called("GetBalances", [addr |-> addr], <<r>>, GetBalances(addr, r))

CallGetBalance ==
    /\ op = "none"
    /\ \E addr \in Addrs, symbol \in Symbols,
       r1 \in AbciResponses(EntityBytes("lengthPrefixed", "Token")),
       r2 \in AbciResponses(AccountBytes) :
        Called("GetBalance", [addr |-> addr, symbol |-> symbol],
               <<r1, r2>>, GetBalance(addr, symbol, r1, r2))

CallGetFee ==
    /\ op = "none"
    /\ \E r \in AbciResponses(ListBytes("lengthPrefixed", "FeeParams")) :
        Called("GetFee", <<>>, <<r>>, GetFee(r))

CallGetOpenOrders ==
    /\ op = "none"
    /\ \E addr \in Addrs, pair \in Pairs,
       r \in AbciResponses(ListBytes("lengthPrefixed", "OpenOrders")) :
        Called("GetOpenOrders", [addr |-> addr, pair |-> pair],
               <<r>>, GetOpenOrders(addr, pair, r))

CallGetTradingPairs ==
    /\ op = "none"
    /\ \E offset \in Offsets, limit \in Limits,
       r \in AbciResponses(ListBytes("lengthPrefixed", "TradingPairs")) :
        Called("GetTradingPairs", [offset |-> offset, limit |-> limit],
               <<r>>, GetTradingPairs(offset, limit, r))

CallGetDepth ==
    /\ op = "none"
    /\ \E tradePair \in Pairs, level \in DepthLevels,
       r \in AbciResponses(EntityBytes("lengthPrefixed", "OrderBook")) :
        Called("GetDepth", [tradePair |-> tradePair, level |-> level],
               <<r>>, GetDepth(tradePair, level, r))

CallGetTimelocks ==
    /\ op = "none"
    /\ \E addr \in Addrs, mErr \in MarshalErrs,
       r \in AbciResponses(ListBytes("json", "TimeLockRecords")) :
        Called("GetTimelocks", [addr |-> addr, mErr |-> mErr],
               <<r>>, GetTimelocks(addr, mErr, r))

CallGetTimelock ==
    /\ op = "none"
    /\ \E addr \in Addrs, recordID \in RecordIDs, mErr \in MarshalErrs,
       r \in AbciResponses(EntityBytes("json", "TimeLockRecord")) :
        Called("GetTimelock", [addr |-> addr, recordID |-> recordID, mErr |-> mErr],
               <<r>>, GetTimelock(addr, recordID, mErr, r))

CallGetProposals ==
    /\ op = "none"
    /\ \E status \in ProposalStatuses, numLatest \in NumLatests, mErr \in MarshalErrs,
       r \in AbciResponses(ListBytes("json", "Proposals")) :
        Called("GetProposals", [status |-> status, numLatest |-> numLatest, mErr |-> mErr],
               <<r>>, GetProposals(status, numLatest, mErr, r))

CallGetProposal ==
    /\ op = "none"
    /\ \E proposalId \in ProposalIDs, mErr \in MarshalErrs,
       r \in AbciResponses(EntityBytes("json", "Proposal")) :
        Called("GetProposal", [proposalId |-> proposalId, mErr |-> mErr],
               <<r>>, GetProposal(proposalId, mErr, r))

CallGetSwapByHash ==
    /\ op = "none"
    /\ \E hash \in Hashes, r \in StoreResponses(EntityBytes("bare", "AtomicSwap")) :
        Called("GetSwapByHash", [randomNumberHash |-> hash], <<r>>, GetSwapByHash(hash, r))

CallGetSwapByCreator ==
    /\ op = "none"
    /\ \E creatorAddr \in AddrTexts, swapStatus \in SwapStatuses, mErr \in MarshalErrs,
       r \in AbciResponses(ListBytes("json", "AtomicSwaps")) :
        Called("GetSwapByCreator",
               [addrText |-> creatorAddr, swapStatus |-> swapStatus, offset |-> 0,
                limit |-> 1, mErr |-> mErr],
               <<r>>, GetSwapByCreator(creatorAddr, swapStatus, 0, 1, mErr, r))

CallGetSwapByRecipient ==
    /\ op = "none"
    /\ \E recipientAddr \in AddrTexts, swapStatus \in SwapStatuses, mErr \in MarshalErrs,
       r \in AbciResponses(ListBytes("json", "AtomicSwaps")) :
        Called("GetSwapByRecipient",
               [addrText |-> recipientAddr, swapStatus |-> swapStatus, offset |-> 0,
                limit |-> 1, mErr |-> mErr],
               <<r>>, GetSwapByRecipient(recipientAddr, swapStatus, 0, 1, mErr, r))

Next ==
    \/ CallTxInfoSearch
    \/ CallListAllTokens
    \/ CallGetTokenInfo
    \/ CallGetCommitAccount
    \/ CallGetAccount
    \/ CallGetBalances
    \/ CallGetBalance
    \/ CallGetFee
    \/ CallGetOpenOrders
    \/ CallGetTradingPairs
    \/ CallGetDepth
    \/ CallGetTimelocks
    \/ CallGetTimelock
    \/ CallGetProposals
    \/ CallGetProposal
    \/ CallGetSwapByHash
    \/ CallGetSwapByCreator
    \/ CallGetSwapByRecipient

Spec == Init /\ [][Next]_vars

----------------------------------------------------------------------------
(* Properties *)

Absent(v) == v.kind = "nil"
Answered == Len(resps) >= 1
\* the transport call the operation stopped at, and its answer
LastResp == resps[Len(resps)]
\* err is cause, unchanged or wrapped with context
Carries(err, cause) ==
    /\ Len(err) >= Len(cause)
    /\ SubSeq(err, Len(err) - Len(cause) + 1, Len(err)) = cause

ValidatorRejects ==
    \/ op = "TxInfoSearch" /\ ValidateTxSearchQueryStr(args.query) # NoErr
    \/ op = "ListAllTokens"
          /\ (ValidateOffset(args.offset) # NoErr \/ ValidateLimit(args.limit) # NoErr)
    \/ op = "GetTokenInfo" /\ ValidateSymbol(args.symbol) # NoErr
    \/ op = "GetBalance" /\ ValidateSymbol(args.symbol) # NoErr
    \/ op = "GetOpenOrders" /\ ValidatePair(args.pair) # NoErr
    \/ op = "GetTradingPairs"
          /\ (ValidateOffset(args.offset) # NoErr \/ ValidateLimit(args.limit) # NoErr)
    \/ op = "GetDepth"
          /\ (ValidatePair(args.tradePair) # NoErr \/ ValidateDepthLevel(args.level) # NoErr)

\* C1: when any parameter validator of a query operation rejects, the
\* operation returns an error and has made no transport call at all.
C1_ValidationBeforeTransport ==
    ValidatorRejects =>
        /\ ret.err # NoErr
        /\ ret.panic = ""
        /\ Absent(ret.val)
        /\ Len(calls) = 0
        /\ Len(resps) = 0

C1_Witness ==
    /\ op = "GetDepth"
    /\ ValidatePair(args.tradePair) = NoErr
    /\ ValidateDepthLevel(args.level) # NoErr
    /\ ret.err = ValidateDepthLevel(args.level)
    /\ Len(calls) = 0

AbciQueryOps ==
    {"ListAllTokens", "GetTokenInfo", "GetAccount", "GetFee", "GetOpenOrders",
     "GetTradingPairs", "GetDepth", "GetTimelocks", "GetTimelock", "GetProposals",
     "GetProposal", "GetSwapByCreator", "GetSwapByRecipient"}

\* C2: an operation that uses ABCIQuery, answered with a status code that is
\* neither success nor the time-lock not-found sentinel, returns an error
\* carrying the response's log text, decodes nothing and returns no value.
C2_RemoteErrorCarriesLog ==
    (/\ op \in AbciQueryOps
     /\ Answered
     /\ LastResp.err = NoErr
     /\ LastResp.code \notin {CodeTypeOK, TimeLockrcNotFoundErrorCode})
    => /\ ret.panic = ""
       /\ ret.err = New(LastResp.log)
       /\ Absent(ret.val)
       /\ Len(decodes) = 0

\* C3: GetTimelock, answered with the not-found sentinel status, returns the
\* absent result (nil record, nil error) whatever the value bytes and the log
\* are, and decodes nothing.
C3_TimelockNotFoundIsAbsent ==
    (/\ op = "GetTimelock"
     /\ Answered
     /\ LastResp.err = NoErr
     /\ LastResp.code = TimeLockrcNotFoundErrorCode)
    => /\ ret = [val |-> NilVal, err |-> NoErr, panic |-> ""]
       /\ Len(decodes) = 0

C3_Witness ==
    /\ op = "GetTimelock"
    /\ Answered
    /\ LastResp.err = NoErr
    /\ LastResp.code = TimeLockrcNotFoundErrorCode
    /\ BytesLen(LastResp.value) > 0
    /\ LastResp.log # ""
    /\ Absent(ret.val)
    /\ ret.err = NoErr

RecordAbsent ==
    /\ Answered
    /\ LastResp.err = NoErr
    /\ \/ op \in {"GetCommitAccount", "GetSwapByHash"} /\ IsNilBytes(LastResp.value)
       \/ op = "GetAccount" /\ IsOK(LastResp) /\ BytesLen(LastResp.value) = 0

\* C4: GetAccount, GetCommitAccount and GetSwapByHash return the explicit
\* absent result with no error (neither an error nor a zeroed struct) when
\* the record does not exist.
C4_AbsentRecordIsAbsentResult ==
    RecordAbsent => ret.panic = "" /\ ret.err = NoErr /\ Absent(ret.val)

ListOps ==
    {"ListAllTokens", "GetFee", "GetOpenOrders", "GetTradingPairs", "GetTimelocks",
     "GetProposals", "GetSwapByCreator", "GetSwapByRecipient"}

\* C5: a list-returning query answered with success status and zero-length
\* value bytes (nil or empty) returns an empty sequence and no error, and
\* hands nothing to the decoder.
C5_EmptyValueIsEmptyList ==
    (/\ op \in ListOps
     /\ Answered
     /\ LastResp.err = NoErr
     /\ IsOK(LastResp)
     /\ BytesLen(LastResp.value) = 0)
    => /\ ret = [val |-> SliceVal(0), err |-> NoErr, panic |-> ""]
       /\ Len(decodes) = 0

\* the balances the aggregator is to produce for a decoded account
RECURSIVE ExpectedBalances(_, _)
ExpectedBalances(a, i) ==
    IF i > Len(a.coins) THEN <<>>
    ELSE <<TokenBalance(a.coins[i].denom, a.coins[i].amount,
                        IF a.kind = "named" THEN AmountOf(a.locked, a.coins[i].denom) ELSE 0,
                        IF a.kind = "named" THEN AmountOf(a.frozen, a.coins[i].denom) ELSE 0)>>
         \o ExpectedBalances(a, i + 1)

AccountDecoded ==
    /\ Answered
    /\ LastResp.err = NoErr
    /\ IsOK(LastResp)
    /\ UnmarshalBinaryBare(LastResp.value, "Account")

\* C6: GetBalances, for every account that GetAccount decodes (named or
\* plain), returns one TokenBalance per symbol of the total coins, in order,
\* with free = total, locked / frozen = the amounts of a named account, else 0.
C6_BalancesOfEveryAccount ==
    (op = "GetBalances" /\ AccountDecoded)
    => /\ ret.panic = ""
       /\ ret.err = NoErr
       /\ ret.val = BalancesVal(ExpectedBalances(LastResp.value.acc, 1))

\* the token-metadata query found no token
TokenUnknown(r) == r.err = NoErr /\ (~IsOK(r) \/ BytesLen(r.value) = 0)

\* C7: GetBalance for a well-formed symbol that is not a known token fails
\* with "symbol not found", returns no balance and issues no account query.
C7_UnknownSymbolNotFound ==
    (/\ op = "GetBalance"
     /\ ValidateSymbol(args.symbol) = NoErr
     /\ Answered
     /\ TokenUnknown(resps[1]))
    => /\ ret = [val |-> NilVal, err |-> New("symbol not found"), panic |-> ""]
       /\ Len(calls) = 1
       /\ calls[1].path.tmpl = "tokens/info/%s"

C7_Witness ==
    /\ op = "GetBalance"
    /\ ValidateSymbol(args.symbol) = NoErr
    /\ Answered
    /\ IsOK(resps[1])
    /\ TokenUnknown(resps[1])
    /\ ret.err = New("symbol not found")
    /\ Len(calls) = 1

\* C8: whenever an operation returns a non-nil error, the value returned with
\* it is the absent result (for a struct returned by value, the zero struct).
C8_NoValueWithError ==
    ret.err # NoErr =>
        \/ Absent(ret.val)
        \/ ret.val.kind = "struct" /\ ret.val.items = 0

\* C9: whenever a transport call of an operation fails, the operation returns
\* an error carrying that failure (unchanged or wrapped) and no value.
C9_TransportFailureSurfaces ==
    (Answered /\ LastResp.err # NoErr)
    => /\ ret.panic = ""
       /\ Carries(ret.err, LastResp.err)
       /\ (Absent(ret.val) \/ (ret.val.kind = "struct" /\ ret.val.items = 0))

\* C10: GetBalances and GetBalance complete normally (a balance result or an
\* error, never a panic) for every transport response.
C10_BalanceQueriesNeverPanic ==
    op \in {"GetBalances", "GetBalance"} => ret.panic = ""

====
